---- MODULE Spec2Model ----
(***************************************************************************)
(* pyxtermjs/app.py: one pty session shared by all socket.io clients.      *)
(* The handlers (connect, pty-input, resize) and the background task       *)
(* read_and_forward_pty_output run as threads of the socket.io server; no  *)
(* lock protects app.config["fd"] / app.config["child_pid"], so a handler  *)
(* is modelled one statement (one system call) per step.                   *)
(***************************************************************************)
EXTENDS Integers, Sequences, FiniteSets, TLC

\* ---------------------------------------------------------------- bounds
\* number of connect events delivered to the server
NConn == 2
\* number of chunks the children write to their ptys, in total
MaxChunks == 2
\* number of pty-input events
MaxInputs == 2
\* number of resize events
MaxResizes == 2
\* number of reads at end of file that return b""
MaxEofReads == 1
\* bytes the input queue of a pty holds before a write to the master waits
PtyInCapacity == 4

\* ------------------------------------------------------- python values
\* app.config["fd"] = None, app.config["child_pid"] = None (lines 25-26).
\* None and 0 are both falsy; every test of these values in the code is a
\* truth test, so one value stands for both.
None == 0

\* `if x:` on None or an int
Truthy(x) == x # None

Conns == 1..NConn
\* a pty is named by the master fd pty.fork() returned: 1, 2, ...
Ptys == 1..NConn

Min(a, b) == IF a < b THEN a ELSE b

\* str.encode(): UTF-8 of a sequence of code points (below U+0800)
RECURSIVE Encode(_)
Encode(s) ==
    IF s = << >> THEN << >>
    ELSE LET cp == Head(s) IN
         (IF cp < 128 THEN <<cp>>
          ELSE <<192 + (cp \div 64), 128 + (cp % 64)>>) \o Encode(Tail(s))

IsCont(b) == b >= 128 /\ b <= 191
IsLead2(b) == b >= 194 /\ b <= 223

\* bytes.decode(errors='ignore'): UTF-8 to code points, one- and two-byte
\* forms; a byte that starts no complete valid form is dropped and decoding
\* resumes at the next byte.
RECURSIVE Decode(_)
Decode(b) ==
    IF b = << >> THEN << >>
    ELSE LET h == Head(b) IN
         IF h < 128 THEN <<h>> \o Decode(Tail(b))
         ELSE IF IsLead2(h) /\ Len(b) >= 2 /\ IsCont(b[2])
              THEN <<(h - 192) * 64 + (b[2] - 128)>> \o Decode(Tail(Tail(b)))
              ELSE Decode(Tail(b))

\* max_read_bytes (line 38)
max_read_bytes == 1024 * 20

\* struct.pack("H", v) accepts an unsigned short and raises struct.error
\* otherwise (line 33)
PackH(v) == v >= 0 /\ v <= 65535

\* what the configured command prints on each run: ["echo","hello"] prints
\* hello and a newline; a shell prints whatever it is made to print, here
\* "h" or one of the two bytes of e-acute (0xC3, 0xA9) at a time
Hello == <<104, 101, 108, 108, 111>>
CmdOutput(c) ==
    IF c = <<"echo", "hello">> THEN {Hello \o <<10>>}
    ELSE {<<104>>, <<195>>, <<169>>}


\* data["input"] of the pty-input events: "a", "e-acute", "ae-acute"
InputStrings == {<<97>>, <<233>>, <<97, 233>>}

\* the data of the resize events
ResizeData ==
    {[rows |-> 40, cols |-> 120], [rows |-> 0, cols |-> 120],
     [rows |-> -1, cols |-> 120], [rows |-> 40]}

VARIABLES
    cmd,        \* app.config["cmd"]
    useTmp,     \* app.config["useTmp"], as `if` sees it
    fd,         \* app.config["fd"]
    child_pid,  \* app.config["child_pid"]
    cpc,        \* connect handler c: the statement it is at
    cloc,       \* connect handler c: its locals (child_pid, fd) after pty.fork()
    cres,       \* connect handler c: how it ended
    nspawn,     \* successful pty.fork() calls so far
    ppc,        \* background task started by connect handler p: the statement it is at
    pout,       \* background task p: its local `output`
    ptyOut,     \* pty k: bytes the child side wrote, not yet read from the master
    winsize,    \* pty k: window size <<rows, cols>>
    childAlive, \* pty k: the forked child still holds the slave side
    childLoop,  \* pty k: the forked child is in its `while True` loop
    cwd,        \* history: the working directory of the latest run of the
                \* command: 0 the server's own, n the n-th directory made
    ndirs,      \* directories tempfile.mkdtemp() has made so far
    inbuf,      \* pty k: bytes written to the master the child has not read
    reads,      \* history: every os.read result, [pump, data]
    emitted,    \* history: every event sent to the clients, [event, pump, output]
    sent,       \* history: bytes of the inputs handled while attached
    delivered,  \* history: bytes os.write accepted
    lastResize, \* history: the last client resize that reached the ioctl
    lastEvent,  \* history: the last pty-input / resize handler run: its data,
                \* whether fd was set, whether it called os.write / ioctl,
                \* whether it raised
    nChunks, nInputs, nResizes

vars == <<cmd, useTmp, fd, child_pid, cpc, cloc, cres, nspawn, ppc, pout,
          ptyOut, winsize, childAlive, childLoop, cwd, ndirs, inbuf, reads,
          emitted, sent, delivered, lastResize, lastEvent, nChunks, nInputs,
          nResizes>>

confVars == <<cmd, useTmp>>
childVars == <<childLoop, cwd, ndirs>>
connVars == <<cpc, cloc, cres>>
pumpVars == <<ppc, pout, reads, emitted>>
ptyVars == <<ptyOut, winsize, childAlive, nChunks>>
inputVars == <<sent, delivered, nInputs>>
resizeVars == <<lastResize, nResizes>>

NoEvent == [kind |-> "none"]
NoResize == << >>

\* the state after import and main(): `command` is app.config["cmd"], `tmp`
\* the truth value of app.config["useTmp"]
InitConf(command, tmp) ==
    /\ cmd = command
    /\ useTmp = tmp
    /\ fd = None
    /\ child_pid = None
    /\ cpc = [c \in Conns |-> "idle"]
    /\ cloc = [c \in Conns |-> None]
    /\ cres = [c \in Conns |-> "none"]
    /\ nspawn = 0
    /\ ppc = [p \in Conns |-> "none"]
    /\ pout = [p \in Conns |-> << >>]
    /\ ptyOut = [k \in Ptys |-> << >>]
    /\ winsize = [k \in Ptys |-> <<0, 0>>]
    /\ childAlive = [k \in Ptys |-> FALSE]
    /\ childLoop = [k \in Ptys |-> FALSE]
    /\ cwd = 0
    /\ ndirs = 0
    /\ inbuf = [k \in Ptys |-> 0]
    /\ reads = << >>
    /\ emitted = << >>
    /\ sent = << >>
    /\ delivered = << >>
    /\ lastResize = NoResize
    /\ lastEvent = NoEvent
    /\ nChunks = 0
    /\ nInputs = 0
    /\ nResizes = 0

\* --tmp defaults to the string "False" (line 143), which `if` takes as
\* true: without --tmp "" every run gets a temporary directory
InitCmd(command) == InitConf(command, TRUE)

\* --command defaults to "bash" (line 134)
Init == InitCmd(<<"bash">>)

\* ------------------------------------------------------------- connect
\* line 80 with the test lost: every connect goes on to fork
AlreadyStarted_Never(pid) == FALSE

\* line 80: `if app.config["child_pid"]:` -- a child was already started
AlreadyStarted(pid) == Truthy(pid)

\* the connect handlers between their first and their last statement
Running == {c \in Conns : cpc[c] \notin {"idle", "done"}}

\* lines 76-82: a connect event arrives; the handler tests child_pid and
\* returns, or goes on to fork. Handlers are numbered in order of arrival.
Connect_Check(c) ==
    /\ cpc[c] = "idle"
    /\ c > 1 => cpc[c - 1] # "idle"
    /\ IF AlreadyStarted(child_pid)
       THEN /\ cpc' = [cpc EXCEPT ![c] = "done"]
            /\ cres' = [cres EXCEPT ![c] = "returned"]
       ELSE /\ cpc' = [cpc EXCEPT ![c] = "fork"]
            /\ cres' = cres
    /\ UNCHANGED <<confVars, childVars, inbuf, fd, child_pid, cloc, nspawn, pumpVars, ptyVars,
                   inputVars, resizeVars, lastEvent>>

\* line 85, parent side: pty.fork() returns (child_pid, fd) of a new child
\* on a new pty
Connect_Fork(c) ==
    /\ cpc[c] = "fork"
    /\ nspawn' = nspawn + 1
    /\ cloc' = [cloc EXCEPT ![c] = nspawn + 1]
    /\ childAlive' = [childAlive EXCEPT ![nspawn + 1] = TRUE]
    /\ childLoop' = [childLoop EXCEPT ![nspawn + 1] = TRUE]
    /\ cpc' = [cpc EXCEPT ![c] = "store_fd"]
    /\ UNCHANGED <<confVars, cwd, ndirs, inbuf, fd, child_pid, cres, pumpVars,
                   ptyOut, winsize, nChunks, inputVars, resizeVars, lastEvent>>

\* line 85: pty.fork() raises OSError (no pty, no process); nothing caught
Connect_ForkFail(c) ==
    /\ cpc[c] = "fork"
    /\ cpc' = [cpc EXCEPT ![c] = "done"]
    /\ cres' = [cres EXCEPT ![c] = "raised"]
    /\ UNCHANGED <<confVars, childVars, inbuf, fd, child_pid, cloc, nspawn, pumpVars, ptyVars,
                   inputVars, resizeVars, lastEvent>>

\* line 99: app.config["fd"] = fd
Connect_StoreFd(c) ==
    /\ cpc[c] = "store_fd"
    /\ fd' = cloc[c]
    /\ cpc' = [cpc EXCEPT ![c] = "store_pid"]
    /\ UNCHANGED <<confVars, childVars, inbuf, child_pid, cloc, cres, nspawn, pumpVars, ptyVars,
                   inputVars, resizeVars, lastEvent>>

\* line 100: app.config["child_pid"] = child_pid
Connect_StorePid(c) ==
    /\ cpc[c] = "store_pid"
    /\ child_pid' = cloc[c]
    /\ cpc' = [cpc EXCEPT ![c] = "winsize"]
    /\ UNCHANGED <<confVars, childVars, inbuf, fd, cloc, cres, nspawn, pumpVars, ptyVars,
                   inputVars, resizeVars, lastEvent>>

\* lines 31-34: struct.pack then ioctl(fd, TIOCSWINSZ)
set_winsize(ws, f, row, col) == [ws EXCEPT ![f] = <<row, col>>]

\* line 101: set_winsize(fd, 50, 50) on the local fd
Connect_Winsize(c) ==
    /\ cpc[c] = "winsize"
    /\ winsize' = set_winsize(winsize, cloc[c], 50, 50)
    /\ cpc' = [cpc EXCEPT ![c] = "pump"]
    /\ UNCHANGED <<confVars, childVars, inbuf, fd, child_pid, cloc, cres, nspawn, pumpVars, ptyOut,
                   childAlive, nChunks, inputVars, resizeVars, lastEvent>>

\* line 105: socketio.start_background_task(read_and_forward_pty_output)
Connect_StartPump(c) ==
    /\ cpc[c] = "pump"
    /\ ppc' = [ppc EXCEPT ![c] = "sleep"]
    /\ cpc' = [cpc EXCEPT ![c] = "log"]
    /\ UNCHANGED <<confVars, childVars, inbuf, fd, child_pid, cloc, cres, nspawn, pout, reads,
                   emitted, ptyVars, inputVars, resizeVars, lastEvent>>

\* line 107: "child pid is " + child_pid adds a str and an int: TypeError,
\* which leaves the handler
Connect_Log(c) ==
    /\ cpc[c] = "log"
    /\ cpc' = [cpc EXCEPT ![c] = "done"]
    /\ cres' = [cres EXCEPT ![c] = "raised"]
    /\ UNCHANGED <<confVars, childVars, inbuf, fd, child_pid, cloc, nspawn, pumpVars, ptyVars,
                   inputVars, resizeVars, lastEvent>>

\* the statements of connect() after the test of line 80
connect(c) ==
    \/ Connect_Fork(c)
    \/ Connect_ForkFail(c)
    \/ Connect_StoreFd(c)
    \/ Connect_StorePid(c)
    \/ Connect_Winsize(c)
    \/ Connect_StartPump(c)
    \/ Connect_Log(c)

\* ------------------------------------------- read_and_forward_pty_output
\* line 43 with a select that never reports the pty ready
Readable_Never(k) == FALSE

\* select.select([fd], [], [], 0): data is buffered, or the slave side is
\* closed (end of file / hang-up counts as readable)
Readable(k) == ptyOut[k] # << >> \/ ~childAlive[k]

\* line 40: socketio.sleep(0.01) returns
Pump_Wake(p) ==
    /\ ppc[p] = "sleep"
    /\ ppc' = [ppc EXCEPT ![p] = "poll"]
    /\ UNCHANGED <<confVars, childVars, inbuf, fd, child_pid, connVars, nspawn, pout, reads, emitted,
                   ptyVars, inputVars, resizeVars, lastEvent>>

\* lines 41-44: `if app.config["fd"]:` and the zero-timeout select on
\* app.config["fd"]; back to the sleep when nothing is ready
Pump_Poll(p) ==
    /\ ppc[p] = "poll"
    /\ ppc' = [ppc EXCEPT ![p] = IF Truthy(fd) /\ Readable(fd) THEN "read" ELSE "sleep"]
    /\ UNCHANGED <<confVars, childVars, inbuf, fd, child_pid, connVars, nspawn, pout, reads, emitted,
                   ptyVars, inputVars, resizeVars, lastEvent>>

\* line 45 with the decode lost: the payload is the raw bytes
Output_Raw(data) == data

\* the payload built from the bytes read (line 45)
Output(data) == Decode(data)

\* line 45: os.read(app.config["fd"], max_read_bytes) with data buffered;
\* with none buffered and the slave open the read blocks
Pump_Read(p) ==
    /\ ppc[p] = "read"
    /\ ptyOut[fd] # << >>
    /\ LET n == Min(Len(ptyOut[fd]), max_read_bytes)
           data == SubSeq(ptyOut[fd], 1, n)
       IN /\ ptyOut' = [ptyOut EXCEPT ![fd] = SubSeq(ptyOut[fd], n + 1, Len(ptyOut[fd]))]
          /\ pout' = [pout EXCEPT ![p] = Output(data)]
          /\ reads' = Append(reads, [pump |-> p, data |-> data])
    /\ ppc' = [ppc EXCEPT ![p] = "emit"]
    /\ UNCHANGED <<confVars, childVars, inbuf, fd, child_pid, connVars, nspawn, emitted, winsize,
                   childAlive, nChunks, inputVars, resizeVars, lastEvent>>

\* the reads so far that returned b""
EofReads == Cardinality({i \in DOMAIN reads : reads[i].data = << >>})

\* line 45 at end of file, where the platform returns b"" (BSD, macOS)
Pump_ReadEOF(p) ==
    /\ ppc[p] = "read"
    /\ EofReads < MaxEofReads
    /\ ptyOut[fd] = << >>
    /\ ~childAlive[fd]
    /\ pout' = [pout EXCEPT ![p] = Output(<< >>)]
    /\ reads' = Append(reads, [pump |-> p, data |-> << >>])
    /\ ppc' = [ppc EXCEPT ![p] = "emit"]
    /\ UNCHANGED <<confVars, childVars, inbuf, fd, child_pid, connVars, nspawn, emitted, ptyVars,
                   inputVars, resizeVars, lastEvent>>

\* line 45 at end of file, where the platform raises OSError(EIO) (Linux):
\* nothing catches it and the background task ends
Pump_ReadError(p) ==
    /\ ppc[p] = "read"
    /\ ptyOut[fd] = << >>
    /\ ~childAlive[fd]
    /\ ppc' = [ppc EXCEPT ![p] = "dead"]
    /\ UNCHANGED <<confVars, childVars, inbuf, fd, child_pid, connVars, nspawn, pout, reads, emitted,
                   ptyVars, inputVars, resizeVars, lastEvent>>

\* line 46: socketio.emit("pty-output", {"output": output})
Pump_Emit(p) ==
    /\ ppc[p] = "emit"
    /\ emitted' = Append(emitted, [event |-> "pty-output", pump |-> p,
                                   output |-> pout[p]])
    /\ ppc' = [ppc EXCEPT ![p] = "sleep"]
    /\ UNCHANGED <<confVars, childVars, inbuf, fd, child_pid, connVars, nspawn, pout, reads, ptyVars,
                   inputVars, resizeVars, lastEvent>>

\* the loop of lines 39-46 while the slave side of the pty is open
read_and_forward_pty_output(p) ==
    \/ Pump_Wake(p)
    \/ Pump_Poll(p)
    \/ Pump_Read(p)
    \/ Pump_Emit(p)

\* line 45 once the slave side is closed and the buffer is drained
read_at_eof(p) ==
    \/ Pump_ReadEOF(p)
    \/ Pump_ReadError(p)

\* a background task has met the end of file: its read raised, or returned b""
ExitObserved == (\E p \in Conns : ppc[p] = "dead") \/ EofReads > 0

\* ------------------------------------------------ the forked child
\* line 89 with one directory used for every run
mkdtemp_Reuse(n) == IF n = 0 THEN 1 ELSE n

\* tempfile.mkdtemp() (line 89): a directory that did not exist, the next
\* after the n made so far
mkdtemp(n) == n + 1

\* lines 87-95, one turn of the loop: with useTmp set the child makes a
\* directory and runs the configured command in it, otherwise it runs the
\* command where the server runs; the command prints to the pty and
\* returns; its exit status is not looked at and the loop goes on
Child_Run(k) ==
    /\ childAlive[k] /\ childLoop[k]
    /\ nChunks < MaxChunks
    /\ \E chunk \in CmdOutput(cmd) :
          ptyOut' = [ptyOut EXCEPT ![k] = ptyOut[k] \o chunk]
    /\ IF useTmp
       THEN /\ ndirs' = mkdtemp(ndirs)
            /\ cwd' = ndirs'
       ELSE /\ ndirs' = ndirs
            /\ cwd' = 0
    /\ nChunks' = nChunks + 1
    /\ UNCHANGED <<confVars, childLoop, inbuf, fd, child_pid, connVars, nspawn,
                   pumpVars, winsize, childAlive, inputVars, resizeVars,
                   lastEvent>>

\* lines 89, 91, 93: tempfile.mkdtemp() raises (no space, no permission), or
\* subprocess.run() raises because the command cannot be started, after
\* mkdtemp made its directory. Nothing in the loop catches the exception:
\* the child leaves the loop, and with it connect(), in its copy of the
\* server; whether the process then ends, closing the slave side, depends
\* on the server's async mode.
Child_Raise(k) ==
    /\ childAlive[k] /\ childLoop[k]
    /\ childLoop' = [childLoop EXCEPT ![k] = FALSE]
    /\ \E ends \in BOOLEAN : childAlive' = [childAlive EXCEPT ![k] = ~ends]
    /\ \E made \in (IF useTmp THEN {0, 1} ELSE {0}) : ndirs' = ndirs + made
    /\ UNCHANGED <<confVars, cwd, inbuf, fd, child_pid, connVars, nspawn,
                   pumpVars, ptyOut, winsize, nChunks, inputVars, resizeVars,
                   lastEvent>>

\* the command reads its standard input: the input queue of the pty empties
Child_Read(k) ==
    /\ childAlive[k] /\ childLoop[k]
    /\ inbuf[k] > 0
    /\ inbuf' = [inbuf EXCEPT ![k] = 0]
    /\ UNCHANGED <<confVars, childVars, fd, child_pid, connVars, nspawn,
                   pumpVars, ptyVars, inputVars, resizeVars, lastEvent>>

\* the forked child is killed: the slave side of its pty closes
Child_Exit(k) ==
    /\ childAlive[k]
    /\ childAlive' = [childAlive EXCEPT ![k] = FALSE]
    /\ childLoop' = [childLoop EXCEPT ![k] = FALSE]
    /\ UNCHANGED <<confVars, cwd, ndirs, inbuf, fd, child_pid, connVars,
                   nspawn, pumpVars, ptyOut, winsize, nChunks, inputVars,
                   resizeVars, lastEvent>>

\* ------------------------------------------------------------ pty-input
\* lines 64, 71 with the test lost: the handler always goes on
Attached_Always(f) == TRUE

\* lines 64, 71: `if app.config["fd"]`
Attached(f) == Truthy(f)

\* os.write(f, b) (line 66) on the blocking descriptor pty.fork() returned:
\* the outcomes [n, raised, blocked]. On an open pty it returns the number
\* of bytes accepted, which may be less than len(b); when the input queue
\* of the pty has no room for all of b it takes what fits and waits for the
\* child to read, and the handler does not return; on a pty whose slave
\* side is closed it may also fail with EIO; on anything that is no
\* descriptor it raises.
OsWrite(f, b) ==
    IF f \in 1..nspawn
    THEN LET room == PtyInCapacity - inbuf[f] IN
         {[n |-> n, raised |-> FALSE, blocked |-> FALSE] :
              n \in (IF b = << >> THEN {0} ELSE 1..Min(Len(b), room))}
         \cup (IF childAlive[f] /\ Len(b) > room
               THEN {[n |-> room, raised |-> FALSE, blocked |-> TRUE]}
               ELSE {})
         \cup (IF childAlive[f]
               THEN {}
               ELSE {[n |-> 0, raised |-> TRUE, blocked |-> FALSE]})
    ELSE {[n |-> 0, raised |-> TRUE, blocked |-> FALSE]}

\* lines 59-66
pty_input(data) ==
    /\ nInputs < MaxInputs
    /\ nInputs' = nInputs + 1
    /\ IF Attached(fd)
       THEN LET b == Encode(data.input) IN
            \E w \in OsWrite(fd, b) :
               /\ delivered' = delivered \o SubSeq(b, 1, w.n)
               /\ inbuf' = [k \in Ptys |-> IF k = fd THEN inbuf[k] + w.n ELSE inbuf[k]]
               /\ sent' = sent \o b
               /\ lastEvent' = [kind |-> "input", data |-> data, attached |-> TRUE,
                                raised |-> w.raised, called |-> TRUE,
                                blocked |-> w.blocked,
                                afterExit |-> ExitObserved]
       ELSE /\ lastEvent' = [kind |-> "input", data |-> data, attached |-> FALSE,
                             raised |-> FALSE, called |-> FALSE,
                             blocked |-> FALSE,
                             afterExit |-> ExitObserved]
            /\ UNCHANGED <<sent, delivered, inbuf>>
    /\ UNCHANGED <<confVars, childVars, fd, child_pid, connVars, nspawn,
                   pumpVars, ptyVars, resizeVars>>

\* --------------------------------------------------------------- resize
\* lines 69-73; set_winsize raises struct.error from struct.pack when a
\* dimension is no unsigned short, before the ioctl; the ioctl waits for
\* nothing
resize(data) ==
    /\ nResizes < MaxResizes
    /\ nResizes' = nResizes + 1
    /\ IF Attached(fd) /\ "rows" \in DOMAIN data /\ "cols" \in DOMAIN data
       THEN IF fd \in 1..nspawn /\ PackH(data.rows) /\ PackH(data.cols)
            THEN /\ winsize' = set_winsize(winsize, fd, data.rows, data.cols)
                 /\ lastResize' = <<data.rows, data.cols>>
                 /\ lastEvent' = [kind |-> "resize", data |-> data, attached |-> TRUE,
                                  raised |-> FALSE, called |-> TRUE,
                                  blocked |-> FALSE]
            ELSE /\ lastEvent' = [kind |-> "resize", data |-> data, attached |-> TRUE,
                                  raised |-> TRUE, called |-> FALSE,
                                  blocked |-> FALSE]
                 /\ UNCHANGED <<winsize, lastResize>>
       ELSE /\ lastEvent' = [kind |-> "resize", data |-> data, attached |-> Attached(fd),
                             raised |-> FALSE, called |-> FALSE,
                             blocked |-> FALSE]
            /\ UNCHANGED <<winsize, lastResize>>
    /\ UNCHANGED <<confVars, childVars, inbuf, fd, child_pid, connVars, nspawn, pumpVars, ptyOut,
                   childAlive, nChunks, inputVars>>

\* ------------------------------------------------------- specifications
\* A connect event arrives while no other connect handler runs: each
\* handler finishes before the next one starts.
Arrive_Serial(c) == Running = {} /\ Connect_Check(c)

\* A connect event arrives while at most one other connect handler runs:
\* two handlers run concurrently.
Arrive_Concurrent(c) == Cardinality(Running) <= 1 /\ Connect_Check(c)

\* Concurrent connect events, the background tasks and the children's output.
Next ==
    \/ \E c \in Conns : Arrive_Concurrent(c)
    \/ \E c \in Conns : connect(c)
    \/ \E p \in Conns : read_and_forward_pty_output(p)
    \/ \E k \in Ptys : Child_Run(k)

Spec == Init /\ [][Next]_vars

\* Serial connect events, the background tasks and the children's output.
NextSeq ==
    \/ \E c \in Conns : Arrive_Serial(c)
    \/ \E c \in Conns : connect(c)
    \/ \E p \in Conns : read_and_forward_pty_output(p)
    \/ \E k \in Ptys : Child_Run(k)

SpecSeq == Init /\ [][NextSeq]_vars

\* Serial connect events with pty-input and resize events at any time.
NextEvents ==
    \/ \E c \in Conns : Arrive_Serial(c)
    \/ \E c \in Conns : connect(c)
    \/ \E s \in InputStrings : pty_input([input |-> s])
    \/ \E d \in ResizeData : resize(d)

SpecEvents == Init /\ [][NextEvents]_vars

\* Serial connect events, the background tasks, children that print and
\* may be killed, and pty-input events.
NextExit ==
    \/ \E c \in Conns : Arrive_Serial(c)
    \/ \E c \in Conns : connect(c)
    \/ \E p \in Conns : read_and_forward_pty_output(p)
    \/ \E p \in Conns : read_at_eof(p)
    \/ \E k \in Ptys : Child_Run(k)
    \/ \E k \in Ptys : Child_Exit(k)
    \/ \E s \in InputStrings : pty_input([input |-> s])

SpecExit == Init /\ [][NextExit]_vars

\* Either setting of --tmp, serial connect events, the background tasks,
\* and children that print and may fail to make their directory or to
\* start the command.
InitChild == \E tmp \in BOOLEAN : InitConf(<<"bash">>, tmp)

NextChild ==
    \/ \E c \in Conns : Arrive_Serial(c)
    \/ \E c \in Conns : connect(c)
    \/ \E p \in Conns : read_and_forward_pty_output(p)
    \/ \E k \in Ptys : Child_Run(k)
    \/ \E k \in Ptys : Child_Raise(k)

SpecChild == InitChild /\ [][NextChild]_vars

\* Serial connect events, pty-input and resize events at any time, and a
\* child that reads its input when it pleases.
NextQueue ==
    \/ \E c \in Conns : Arrive_Serial(c)
    \/ \E c \in Conns : connect(c)
    \/ \E s \in InputStrings : pty_input([input |-> s])
    \/ \E d \in ResizeData : resize(d)
    \/ \E k \in Ptys : Child_Read(k)

SpecQueue == Init /\ [][NextQueue]_vars

\* The end-to-end scenario: the command is ["echo","hello"], connect events
\* are serial, and every thread and every child gets to run: a connect
\* handler that can take its next statement takes it, a background task
\* that can take its next statement takes it, a child that can run the
\* command runs it.
SpecLive ==
    /\ InitCmd(<<"echo", "hello">>)
    /\ [][NextSeq]_vars
    /\ \A c \in Conns : WF_vars(connect(c))
    /\ \A p \in Conns : WF_vars(read_and_forward_pty_output(p))
    /\ \A k \in Ptys : WF_vars(Child_Run(k))

\* ================================================================ claims
\* the background tasks started so far
Pumps == {p \in Conns : ppc[p] # "none"}

\* the reads, and the events, of background task p, in order
ReadsOf(p) == SelectSeq(reads, LAMBDA r : r.pump = p)
EventsOf(p) == SelectSeq(emitted, LAMBDA e : e.pump = p)

\* s is t with some elements removed
RECURSIVE IsSubseq(_, _)
IsSubseq(s, t) ==
    IF s = << >> THEN TRUE
    ELSE IF t = << >> THEN FALSE
    ELSE IF Head(s) = Head(t) THEN IsSubseq(Tail(s), Tail(t))
    ELSE IsSubseq(s, Tail(t))

\* C1: when each connect handler finishes before the next one starts, at
\* most one child is ever forked and at most one background task started,
\* and once a connect has stored child_pid and no handler is running there
\* is exactly one of each, however many connects followed.
C1_IdempotentConnect ==
    /\ nspawn <= 1
    /\ Cardinality(Pumps) <= 1
    /\ (Truthy(child_pid) /\ Running = {}) => (nspawn = 1 /\ Cardinality(Pumps) = 1)

\* C1's case: a connect spawned, and a later connect returned as a no-op
C1_Witness ==
    \E c, d \in Conns :
        /\ c < d
        /\ cpc[c] = "done" /\ cloc[c] # None
        /\ cpc[d] = "done" /\ cres[d] = "returned"
        /\ nspawn = 1

\* C2: with two connect handlers running concurrently, pty.fork() is called
\* once: at most one child and one background task exist in every state.
C2_NoDoubleSpawn == nspawn <= 1 /\ Cardinality(Pumps) <= 1

\* C4: the events of a background task follow its reads: one event per
\* read, in the order of the reads (the last read may still await its
\* emit), each carrying the decoded text of that read alone, which is the
\* bytes read with the undecodable ones removed.
C4_OutputOrder ==
    \A p \in Conns :
        LET r == ReadsOf(p)
            e == EventsOf(p)
        IN /\ Len(e) = Len(r) - (IF ppc[p] = "emit" THEN 1 ELSE 0)
           /\ \A i \in 1..Len(e) :
                 /\ e[i].output = Decode(r[i].data)
                 /\ IsSubseq(Encode(e[i].output), r[i].data)

\* C4's case: one background task has read twice and emitted both, the
\* two reads having different content
C4_Witness ==
    \E p \in Conns :
        /\ Len(EventsOf(p)) >= 2
        /\ ReadsOf(p)[1].data # ReadsOf(p)[2].data
        /\ EventsOf(p)[1].output # << >>

\* C5: no pty-output event has an empty payload.
C5_NoEmptyEvent == \A i \in DOMAIN emitted : emitted[i].output # << >>

\* C3: the bytes os.write accepted are exactly the bytes of the inputs
\* handled while fd was set, in call order.
C3_InputFidelity == delivered = sent

\* some connect handler has stored the pty handle: a session was started
Started == \E c \in Conns : cloc[c] # None /\ cpc[c] \notin {"fork", "store_fd"}

\* a session was started and the handlers no longer see a pty handle
Terminated == Started /\ ~Truthy(fd)

\* C6: once a background task has met the end of file of the dead child's
\* pty, the session is Terminated, and a pty-input event handled after that
\* neither calls os.write nor raises.
C6_ChildExitDetected ==
    ExitObserved =>
        /\ Terminated
        /\ (lastEvent.kind = "input" /\ lastEvent.afterExit)
              => (~lastEvent.called /\ ~lastEvent.raised)

\* C7: once a client resize has reached the pty, the window size of the
\* attached pty is that of the most recent client resize.
C7_ResizeNotOverwritten ==
    (lastResize # NoResize /\ Truthy(fd)) => winsize[fd] = lastResize

\* s occurs in t as a contiguous run
Contains(t, s) ==
    \E i \in 0..(Len(t) - Len(s)) : SubSeq(t, i + 1, i + Len(s)) = s

HelloEmitted == \E i \in DOMAIN emitted : Contains(emitted[i].output, Hello)

\* the configured command has run and returned at least once
CmdReturned == nChunks >= 1

\* C8 as stated: after a connect has started the session, an event
\* containing hello is eventually emitted, and once echo has exited the
\* session becomes Terminated.
C8_HelloThenTerminated ==
    /\ Started ~> HelloEmitted
    /\ CmdReturned ~> Terminated

\* C8 as amended: after a connect has started the session, an event
\* containing hello is eventually emitted with the session still attached,
\* and the session is never Terminated.
C8_HelloAndStillRunning ==
    /\ Started ~> (HelloEmitted /\ Truthy(fd))
    /\ [](~Terminated)

\* C8's case: echo has run and returned, hello was emitted
C8_Witness == CmdReturned /\ HelloEmitted /\ Truthy(fd)

\* C9: a pty-input or resize event handled while no pty handle is stored
\* changes nothing of the session, calls neither os.write nor the ioctl,
\* and does not raise.
C9_StaleEventsDropped ==
    [][ (fd = None /\ (nInputs' # nInputs \/ nResizes' # nResizes))
        => /\ UNCHANGED <<fd, child_pid, connVars, nspawn, pumpVars, ptyOut,
                          winsize, childAlive, sent, delivered, lastResize>>
           /\ ~lastEvent'.called
           /\ ~lastEvent'.raised ]_vars

\* C9's case: an input event and a resize event were handled, the last of
\* them with no pty handle stored
C9_Witness ==
    /\ nInputs > 0 /\ nResizes > 0
    /\ lastEvent.kind \in {"input", "resize"}
    /\ ~lastEvent.attached
    /\ fd = None

\* rows and cols are present and positive
ValidDims(d) ==
    /\ "rows" \in DOMAIN d /\ "cols" \in DOMAIN d
    /\ d.rows > 0 /\ d.cols > 0

\* C10: a resize event changes the window size only with a pty handle
\* stored and valid dimensions; any other resize event leaves every window
\* size as it was and does not raise.
C10_ResizeValidation ==
    [][ (nResizes' # nResizes /\ ~(Truthy(fd) /\ ValidDims(lastEvent'.data)))
        => (winsize' = winsize /\ ~lastEvent'.raised) ]_vars

\* the spawn of connect handler c failed: pty.fork() raised, or the child
\* it forked left its loop before the command had run once
SpawnFailed(c) ==
    \/ cpc[c] = "done" /\ cres[c] = "raised" /\ cloc[c] = None
    \/ cloc[c] # None /\ ~childLoop[cloc[c]] /\ nChunks = 0

\* connect handler c is the last that arrived, and it has ended
LastEnded(c) == cpc[c] = "done" /\ \A d \in Conns : d > c => cpc[d] = "idle"

\* C11: when the spawn of the last connect failed (pty allocation, process
\* creation or directory creation), no pty handle, no child pid and no
\* background task is recorded, so that the next connect forks again.
C11_SpawnFailureLeavesIdle ==
    \A c \in Conns :
        (LastEnded(c) /\ SpawnFailed(c))
            => (fd = None /\ child_pid = None /\ Pumps = {})

\* C12: once a read of a background task has failed with an OS error, the
\* task has stopped, no pty handle is stored any more, and a pty-input
\* event handled after that does not use the failed handle.
C12_ReadErrorEndsSession ==
    (\E p \in Conns : ppc[p] = "dead") =>
        /\ fd = None
        /\ (lastEvent.kind = "input" /\ lastEvent.afterExit) => ~lastEvent.called

\* C13: when the spawn of a connect handler that has ended failed, an error
\* event was sent to the clients.
C13_SpawnFailureReported ==
    \A c \in Conns :
        (cpc[c] = "done" /\ SpawnFailed(c))
            => \E i \in DOMAIN emitted : emitted[i].event = "error"

\* C14: a background task that is about to call os.read finds data
\* buffered on the pty it reads, however many connect events there were.
C14_ReadFindsData ==
    \A p \in Conns : ppc[p] = "read" => (Truthy(fd) /\ ptyOut[fd] # << >>)

\* C15: every pty-input and resize handler returns: none is left waiting in
\* os.write for the child to read.
C15_HandlersReturn ==
    lastEvent.kind \in {"input", "resize"} => ~lastEvent.blocked

\* child k has run the command once more in this step
Ran(k) == nChunks' = nChunks + 1 /\ ptyOut'[k] # ptyOut[k]

\* the run of this step had the working directory line 88 asks for: with
\* useTmp a directory made in this step, which no earlier run of any child
\* had, otherwise the server's own
FreshCwd ==
    IF useTmp
    THEN cwd' = ndirs' /\ cwd' > ndirs /\ cwd' # cwd
    ELSE cwd' = 0 /\ ndirs' = ndirs

C17_NeverReset ==
    [][ (Truthy(fd) /\ Truthy(child_pid))
        => (fd' = fd /\ child_pid' = child_pid /\ nspawn' = nspawn) ]_vars

\* C18: a connect handler that forked and has ended has stored its fd and
\* child_pid, set the window size of its pty to 50x50, started its
\* background task, and returned without raising.
C18_FirstConnectReturns ==
    \A c \in Conns :
        (cpc[c] = "done" /\ cloc[c] # None)
            => /\ fd = cloc[c] /\ child_pid = cloc[c]
               /\ winsize[cloc[c]] = <<50, 50>>
               /\ ppc[c] # "none"
               /\ cres[c] = "returned"

\* the elements of a sequence of sequences, one after the other
RECURSIVE Flatten(_)
Flatten(ss) == IF ss = << >> THEN << >> ELSE Head(ss) \o Flatten(Tail(ss))

\* b is the UTF-8 encoding of some text
ValidUtf8(b) == Encode(Decode(b)) = b

\* C19: when the bytes a background task has read so far are valid UTF-8
\* and it has emitted every read, the payloads of its events, one after
\* the other, are the decoding of all the bytes it read.
C19_ChunksLoseNothing ==
    \A p \in Conns :
        LET r == ReadsOf(p)
            e == EventsOf(p)
            stream == Flatten([i \in 1..Len(r) |-> r[i].data])
            text == Flatten([i \in 1..Len(e) |-> e[i].output])
        IN (ppc[p] # "emit" /\ ValidUtf8(stream)) => text = Decode(stream)

====
